---- MODULE Spec2Model ----
(***************************************************************************)
(* Deployment Tracker API (backend/server.py): the authentication layer,   *)
(* the ownership-scoped mutation handlers and the store they act on.       *)
(*                                                                         *)
(* Every request is a coroutine.  It can be suspended only at an `await`   *)
(* of a store operation, so one step of a request is: the awaited store    *)
(* operation, executed atomically by the store, followed by the handler's  *)
(* synchronous code up to the next await.  What that code computes ahead   *)
(* of the next await (the decoding of the token on arrival, the filter of  *)
(* a count) is kept in the request and used by the next step.  Requests    *)
(* interleave step by step; there is no lock and no transaction around a   *)
(* handler.                                                                *)
(*                                                                         *)
(* Time is counted in ticks of 1/TicksPerSecond second; datetime.utcnow()  *)
(* reads `clock`.  A JWT carries its expiry in whole seconds.              *)
(* uuid4 identities are fresh numbers drawn from `nextId`.                 *)
(***************************************************************************)
EXTENDS Integers, Sequences, FiniteSets, TLC

VARIABLES
    clock,    \* datetime.utcnow(), in ticks
    db,       \* the store: one sequence of documents per collection
    nextId,   \* source of uuid4 values
    tokens,   \* the access tokens issued so far: token, subject, instant of issue
    req,      \* the requests in flight, one per slot
    nreq      \* number of requests received so far

vars == <<clock, db, nextId, tokens, req, nreq>>

----------------------------------------------------------------------------
(* Bounds of the model *)

MaxRequests == 3        \* requests received in one behaviour, empty store
MaxSeededRequests == 2  \* requests received in one behaviour, seeded store
MaxListingRequests == 2 \* requests received in one behaviour, large store
MaxStatsRequests == 2   \* requests received in one behaviour, dashboard
MaxGateRequests == 2    \* requests received in one behaviour, every route
MaxInFlight == 2        \* requests handled concurrently
MaxClock == 1           \* last tick of the short time line
TicksPerSecond == 2     \* resolution of the clock

Slots == 1..MaxInFlight

----------------------------------------------------------------------------
(* Program constants *)

JWT_SECRET == "server-secret"
JWT_EXPIRATION_HOURS == 24
SecondsPerHour == 3600
RecentDays == 7
ListLimit == 1000

UserRole == {"admin", "developer"}
Priority == {"low", "medium", "high"}
BugStatus == {"open", "in_progress", "resolved"}
FixStatus == {"pending", "deployed"}
IdeaStatus == {"new", "under_review", "approved", "rejected"}
Environment == {"dev", "staging", "prod"}

Collections == {"users", "bugs", "fixes", "deployments", "ideas"}

(* An optional record (a document, a user, a token, a request body):
   None is the empty tuple, a value v is <<v>>. *)
None == <<>>
Some(v) == <<v>>
IsNone(o) == o = <<>>
Get(o) == o[1]

(* Python's None as the value of a text field *)
Null == "None"

----------------------------------------------------------------------------
(* The store interface (motor collections) *)

(* A filter document: a record of field values that must all be equal in the
   document, [or |-> <<f1, ..., fn>>] for {"$or": [f1, ..., fn]}, or
   [gte |-> [field |-> v]] for {field: {"$gte": v}}. *)
MatchesAll(doc, filter) ==
    \A f \in DOMAIN filter : f \in DOMAIN doc /\ doc[f] = filter[f]

Matches(doc, filter) ==
    IF DOMAIN filter = {"or"}
    THEN \E i \in DOMAIN filter.or : MatchesAll(doc, filter.or[i])
    ELSE IF DOMAIN filter = {"gte"}
    THEN \A f \in DOMAIN filter.gte :
             f \in DOMAIN doc /\ doc[f] >= filter.gte[f]
    ELSE MatchesAll(doc, filter)

(* position of the first document the filter matches, 0 when there is none *)
FirstIndex(seq, filter) ==
    LET S == {i \in 1..Len(seq) : Matches(seq[i], filter)}
    IN  IF S = {} THEN 0 ELSE CHOOSE i \in S : \A j \in S : i <= j

(* find_one(filter): the first matching document in natural order, or None *)
FindOne(coll, filter) ==
    LET i == FirstIndex(coll, filter)
    IN  IF i = 0 THEN None ELSE Some(coll[i])

(* insert_one(doc) *)
InsertOne(coll, doc) == Append(coll, doc)

RemoveAt(seq, i) ==
    [j \in 1..(Len(seq) - 1) |-> IF j < i THEN seq[j] ELSE seq[j + 1]]

(* delete_one(filter): removes the first match; deleted_count is 0 or 1 *)
DeleteOne(coll, filter) ==
    LET i == FirstIndex(coll, filter)
    IN  IF i = 0 THEN [coll |-> coll, deleted_count |-> 0]
        ELSE [coll |-> RemoveAt(coll, i), deleted_count |-> 1]

(* a variant that applies one of the fields only *)
SetFields_partly(doc, update_data) ==
    IF DOMAIN update_data = {} THEN doc
    ELSE LET k == CHOOSE f \in DOMAIN update_data : TRUE
         IN  [f \in (DOMAIN doc) \cup {k} |->
                 IF f = k THEN update_data[k] ELSE doc[f]]

(* {"$set": update_data} applied to one document *)
SetFields(doc, update_data) ==
    [k \in (DOMAIN doc) \cup (DOMAIN update_data) |->
        IF k \in DOMAIN update_data THEN update_data[k] ELSE doc[k]]

(* update_one(filter, {"$set": update_data}): changes the first match *)
UpdateOne(coll, filter, update_data) ==
    LET i == FirstIndex(coll, filter)
    IN  IF i = 0 THEN coll
        ELSE [coll EXCEPT ![i] = SetFields(coll[i], update_data)]

(* Whether the store accepts {"$set": update_data}.  An empty operand is a
   write error on servers before MongoDB 5.0 and a no-op from 5.0 on. *)
SetAccepted(update_data) ==
    IF DOMAIN update_data = {} THEN BOOLEAN ELSE {TRUE}

(* count_documents(filter) *)
CountDocuments(coll, filter) ==
    Cardinality({i \in 1..Len(coll) : Matches(coll[i], filter)})

Docs(coll) == {coll[i] : i \in 1..Len(coll)}

(* find().to_list(length): the documents in natural order, at most length *)
ToList(coll, length) ==
    IF Len(coll) <= length THEN coll ELSE SubSeq(coll, 1, length)

----------------------------------------------------------------------------
(* Responses *)

Resp(status, detail, body) ==
    [status |-> status, detail |-> detail, body |-> body]

HTTPException(status_code, detail) == Resp(status_code, detail, None)

Ok(body) == Resp(200, "", Some(body))

NoResp == Resp(0, "", None)

(* An exception no handler catches: the framework answers 500. *)
InternalServerError == Resp(500, "Internal Server Error", None)

----------------------------------------------------------------------------
(* Credential store: bcrypt *)

Salts == {"s1"}

hash_password(password, salt) == [salt |-> salt, digest |-> <<salt, password>>]

verify_password(password, hashed) ==
    hashed.digest = <<hashed.salt, password>>

----------------------------------------------------------------------------
(* Token service: PyJWT, HS256 *)

TicksPerHour == SecondsPerHour * TicksPerSecond

(* timegm(dt.utctimetuple()): a datetime as whole seconds, fraction dropped *)
ToEpochSeconds(t) == t \div TicksPerSecond

(* A token is its claim set and the key that signed it. *)
Token(sub, exp, key) ==
    [wellformed |-> TRUE, sub |-> sub, exp |-> exp, key |-> key]

MalformedToken ==
    [wellformed |-> FALSE, sub |-> None, exp |-> 0, key |-> "none"]

(* a variant that forgets the validity window *)
create_access_token_expiring_now(sub, now) ==
    Token(Some(sub), ToEpochSeconds(now), JWT_SECRET)

create_access_token(sub, now) ==
    LET expire == now + JWT_EXPIRATION_HOURS * TicksPerHour
    IN  Token(Some(sub), ToEpochSeconds(expire), JWT_SECRET)

(* the record of one issued token *)
Issued(token, subject, now) ==
    [token |-> token, subject |-> subject, issued_at |-> now]

IssuedTokens == {e.token : e \in tokens}

(* jwt.decode(token, key, algorithms): the claim set, or None for any
   PyJWTError (undecodable, bad signature, expired) *)
jwt_decode(token, key, now) ==
    IF ~token.wellformed THEN None
    ELSE IF token.key # key THEN None
    ELSE IF token.exp <= ToEpochSeconds(now) THEN None
    ELSE Some([sub |-> token.sub, exp |-> token.exp])

----------------------------------------------------------------------------
(* Authorization dependencies *)

(* the Authorization header "<scheme> <credentials>" *)
HTTPAuthorizationCredentials(scheme, credentials) ==
    Some([scheme |-> scheme, credentials |-> credentials])

Bearer(token) == HTTPAuthorizationCredentials("Bearer", token)

Authed(user) == [user |-> Some(user), error |-> NoResp]
Denied(resp) == [user |-> None, error |-> resp]

(* a variant without the test for a missing user: building the User from
   None raises TypeError *)
get_current_user_unchecked(credentials, now, users) ==
    IF IsNone(credentials)
    THEN Denied(HTTPException(403, "Not authenticated"))
    ELSE IF Get(credentials).scheme # "Bearer"
    THEN Denied(HTTPException(403, "Invalid authentication credentials"))
    ELSE
    LET payload == jwt_decode(Get(credentials).credentials, JWT_SECRET, now)
    IN  IF IsNone(payload) \/ IsNone(Get(payload).sub)
        THEN Denied(HTTPException(401, "Invalid authentication credentials"))
        ELSE
        LET user_id == Get(Get(payload).sub)
            user == FindOne(users, [id |-> user_id])
        IN  IF IsNone(user)
            THEN Denied(InternalServerError)
            ELSE Authed(Get(user))

(* a variant that takes a request without credentials for the first user *)
get_current_user_anonymous(credentials, now, users) ==
    IF IsNone(credentials)
    THEN IF Len(users) = 0
         THEN Denied(HTTPException(403, "Not authenticated"))
         ELSE Authed(users[1])
    ELSE IF Get(credentials).scheme # "Bearer"
    THEN Denied(HTTPException(403, "Invalid authentication credentials"))
    ELSE
    LET payload == jwt_decode(Get(credentials).credentials, JWT_SECRET, now)
    IN  IF IsNone(payload) \/ IsNone(Get(payload).sub)
        THEN Denied(HTTPException(401, "Invalid authentication credentials"))
        ELSE
        LET user_id == Get(Get(payload).sub)
            user == FindOne(users, [id |-> user_id])
        IN  IF IsNone(user)
            THEN Denied(HTTPException(401, "User not found"))
            ELSE Authed(Get(user))

(* credentials: the Authorization header, None when the request has none.
   HTTPBearer refuses a missing header and a scheme other than Bearer before
   the handler's code runs.  now: the instant at which the token is decoded,
   which is before the await of the user lookup. *)
get_current_user(credentials, now, users) ==
    IF IsNone(credentials)
    THEN Denied(HTTPException(403, "Not authenticated"))
    ELSE IF Get(credentials).scheme # "Bearer"
    THEN Denied(HTTPException(403, "Invalid authentication credentials"))
    ELSE
    LET payload == jwt_decode(Get(credentials).credentials, JWT_SECRET, now)
    IN  IF IsNone(payload) \/ IsNone(Get(payload).sub)
        THEN Denied(HTTPException(401, "Invalid authentication credentials"))
        ELSE
        LET user_id == Get(Get(payload).sub)
            user == FindOne(users, [id |-> user_id])
        IN  IF IsNone(user)
            THEN Denied(HTTPException(401, "User not found"))
            ELSE Authed(Get(user))

(* a variant that forgets the role check *)
get_admin_user_any_role(credentials, now, users) ==
    get_current_user(credentials, now, users)

get_admin_user(credentials, now, users) ==
    LET r == get_current_user(credentials, now, users)
    IN  IF IsNone(r.user) THEN r
        ELSE IF Get(r.user).role # "admin"
        THEN Denied(HTTPException(403, "Admin access required"))
        ELSE r

----------------------------------------------------------------------------
(* Pydantic models *)

User(id, user_data, password_hash, now) ==
    [id |-> id, username |-> user_data.username, email |-> user_data.email,
     password_hash |-> password_hash, role |-> user_data.role,
     created_at |-> now]

UserResponse(user) ==
    [id |-> user.id, username |-> user.username, email |-> user.email,
     role |-> user.role, created_at |-> user.created_at]

TokenResponse(access_token, user) ==
    [access_token |-> access_token, token_type |-> "bearer",
     user |-> UserResponse(user)]

(* a field the request body leaves out takes the model's default *)
(* a variant that keeps the missing value *)
Default_missing(v, d) == v

Default(v, d) == IF v = Null THEN d ELSE v

Bug(id, bug_data, created_by, now) ==
    [id |-> id, title |-> bug_data.title, description |-> bug_data.description,
     priority |-> Default(bug_data.priority, "medium"), status |-> "open",
     assigned_to |-> bug_data.assigned_to, created_by |-> created_by,
     created_at |-> now, updated_at |-> now]

Fix(id, fix_data, created_by, now) ==
    [id |-> id, title |-> fix_data.title, description |-> fix_data.description,
     related_bug_id |-> fix_data.related_bug_id, status |-> "pending",
     created_by |-> created_by, created_at |-> now]

Deployment(id, deployment_data, deployed_by, now) ==
    [id |-> id, version |-> deployment_data.version,
     description |-> deployment_data.description,
     environment |-> deployment_data.environment,
     deployed_by |-> deployed_by, deployed_at |-> now,
     changes_included |-> deployment_data.changes_included]

Idea(id, idea_data, created_by, now) ==
    [id |-> id, title |-> idea_data.title, description |-> idea_data.description,
     priority |-> Default(idea_data.priority, "medium"), status |-> "new",
     created_by |-> created_by, created_at |-> now]

(* a variant that keeps the None items: a full replacement *)
NotNoneItems_unfiltered(update) == update

(* {k: v for k, v in update.dict().items() if v is not None} *)
NotNoneItems(update) ==
    [k \in {f \in DOMAIN update : update[f] # Null} |-> update[k]]

(* a variant that forgets the item *)
WithItem_forgotten(d, key, value) == d

(* update_data["updated_at"] = datetime.utcnow() *)
WithItem(d, key, value) ==
    [k \in (DOMAIN d) \cup {key} |-> IF k = key THEN value ELSE d[k]]

(* a variant that lets only administrators through *)
PermissionDenied_admin_only(current_user, entity) ==
    current_user.role # "admin"

(* the ownership-or-admin rule of update and delete *)
PermissionDenied(current_user, entity) ==
    current_user.role # "admin" /\ entity.created_by # current_user.id

----------------------------------------------------------------------------
(* Requests *)

NewRequest(op, pc, credentials, target, payload) ==
    [op |-> op, pc |-> pc, received_at |-> 0, credentials |-> credentials,
     target |-> target, payload |-> payload, current_user |-> None,
     doc |-> None, update_data |-> <<>>, stats |-> <<>>, filter |-> <<>>,
     response |-> NoResp]

IdleRequest == NewRequest("none", "idle", None, 0, None)

(* the request ends with this response *)
Finish(r, resp) ==
    [r EXCEPT !.pc = "done", !.received_at = 0, !.response = resp]

At(s, op, pc) == req[s].op = op /\ req[s].pc = pc

----------------------------------------------------------------------------
(* Inputs the clients send *)

UserCreateInputs ==
    {[username |-> "a", email |-> "a@x", password |-> "pw1", role |-> "admin"],
     [username |-> "b", email |-> "b@x", password |-> "pw1", role |-> "developer"],
     [username |-> "b", email |-> "a@x", password |-> "pw1", role |-> "developer"]}

UserLoginInputs ==
    {[username |-> "a", password |-> "pw1"],
     [username |-> "a", password |-> "pw2"],
     [username |-> "b", password |-> "pw1"]}

BugCreateInputs ==
    [title : {"t1"}, description : {"d1"}, priority : {Null, "high"},
     assigned_to : {Null}]

BugUpdateInputs ==
    {[title |-> "t2", description |-> Null, priority |-> Null,
      status |-> "in_progress", assigned_to |-> Null],
     [title |-> Null, description |-> Null, priority |-> Null,
      status |-> "resolved", assigned_to |-> "b"],
     [title |-> Null, description |-> Null, priority |-> Null,
      status |-> Null, assigned_to |-> Null]}

FixCreateInputs ==
    [title : {"t1"}, description : {"d1"}, related_bug_id : {Null}]

FixUpdateInputs ==
    {[title |-> Null, description |-> "d2", status |-> "deployed"],
     [title |-> Null, description |-> Null, status |-> "deployed"],
     [title |-> Null, description |-> Null, status |-> Null]}

DeploymentCreateInputs ==
    [version : {"v1"}, description : {"d1"}, environment : {"prod"},
     changes_included : {<<>>}]

IdeaCreateInputs ==
    [title : {"t1"}, description : {"d1"}, priority : {Null}]

IdeaUpdateInputs ==
    {[title |-> Null, description |-> Null, priority |-> "high",
      status |-> "approved"],
     [title |-> "t2", description |-> Null, priority |-> Null,
      status |-> Null],
     [title |-> Null, description |-> Null, priority |-> Null,
      status |-> Null]}

(* a token signed with a key that is not the server's *)
ForgedToken(now) ==
    Token(Some(1), ToEpochSeconds(now) + JWT_EXPIRATION_HOURS * SecondsPerHour,
          "attacker-key")

(* what a client can put in the Authorization header *)
CredentialInputs ==
    {None, HTTPAuthorizationCredentials("Basic", MalformedToken)}
    \cup {Bearer(t) : t \in IssuedTokens \cup {MalformedToken, ForgedToken(clock)}}

(* the clients that hold a token the server issued *)
IssuedCredentials == {Bearer(t) : t \in IssuedTokens}

(* an identity no document has *)
UnknownId == 0

(* the path parameter: the identity of a stored document, or an unknown one *)
TargetInputs(coll) == {d.id : d \in Docs(coll)} \cup {UnknownId}

OpenRequests ==
    {NewRequest("register", "find", None, 0, Some(u)) : u \in UserCreateInputs}
    \cup {NewRequest("login", "find", None, 0, Some(l)) : l \in UserLoginInputs}

CallerRequests(op, credentials, targets, payloads) ==
    {NewRequest(op, "auth", c, t, p) :
        c \in credentials, t \in targets, p \in payloads}

WithBody(inputs) == {Some(i) : i \in inputs}

(* the user routes *)
UserRequests(credentials) ==
    CallerRequests("get_me", credentials, {0}, {None})
    \cup CallerRequests("delete_user", credentials, TargetInputs(db.users), {None})

(* the routes of the tracked entities *)
EntityRequests(credentials) ==
    CallerRequests("create_bug", credentials, {0}, WithBody(BugCreateInputs))
    \cup CallerRequests("update_bug", credentials, TargetInputs(db.bugs),
                        WithBody(BugUpdateInputs))
    \cup CallerRequests("delete_bug", credentials, TargetInputs(db.bugs), {None})
    \cup CallerRequests("create_fix", credentials, {0}, WithBody(FixCreateInputs))
    \cup CallerRequests("update_fix", credentials, TargetInputs(db.fixes),
                        WithBody(FixUpdateInputs))
    \cup CallerRequests("create_deployment", credentials, {0},
                        WithBody(DeploymentCreateInputs))
    \cup CallerRequests("create_idea", credentials, {0}, WithBody(IdeaCreateInputs))
    \cup CallerRequests("update_idea", credentials, TargetInputs(db.ideas),
                        WithBody(IdeaUpdateInputs))

(* the routes that list a collection *)
ListOps ==
    {"get_users", "get_bugs", "get_fixes", "get_deployments", "get_ideas"}

ListRequests(credentials) ==
    UNION {CallerRequests(op, credentials, {0}, {None}) : op \in ListOps}

DashboardRequests(credentials) ==
    CallerRequests("get_dashboard_stats", credentials, {0}, {None})

Requests ==
    OpenRequests \cup UserRequests(CredentialInputs)
    \cup EntityRequests(CredentialInputs)
    \cup ListRequests(CredentialInputs)
    \cup CallerRequests("get_bug", CredentialInputs, TargetInputs(db.bugs), {None})
    \cup DashboardRequests(CredentialInputs)

(* instants at which the clock is read *)
TokenLifetime == JWT_EXPIRATION_HOURS * TicksPerHour
ShortTimeline == 0..MaxClock
ExpiryTimeline ==
    {0, 1, TokenLifetime - 1, TokenLifetime}

----------------------------------------------------------------------------
(* The initial state: an empty store, no request *)

Init ==
    /\ clock = 0
    /\ db = [c \in Collections |-> <<>>]
    /\ nextId = 1
    /\ tokens = {}
    /\ req = [s \in Slots |-> IdleRequest]
    /\ nreq = 0

(* time passes: the clock moves on to a later instant of the time line *)
Advance(timeline) ==
    /\ \E t \in timeline : t > clock /\ clock' = t
    /\ UNCHANGED <<db, nextId, tokens, req, nreq>>

(* a request arrives and is given to the first free slot *)
Receive(s, requests, max) ==
    /\ req[s].pc \in {"idle", "done"}
    /\ \A j \in Slots : j < s => req[j].pc \notin {"idle", "done"}
    /\ nreq < max
    /\ \E r \in requests : req' = [req EXCEPT ![s] = [r EXCEPT !.received_at = clock]]
    /\ nreq' = nreq + 1
    /\ UNCHANGED <<clock, db, nextId, tokens>>

----------------------------------------------------------------------------
(* POST /auth/register *)

register_find(s) ==
    /\ At(s, "register", "find")
    /\ LET user_data == Get(req[s].payload)
           existing_user ==
               FindOne(db.users, [or |-> <<[username |-> user_data.username],
                                           [email |-> user_data.email]>>])
       IN  IF ~IsNone(existing_user)
           THEN /\ req' = [req EXCEPT ![s] = Finish(@,
                       HTTPException(400, "Username or email already registered"))]
                /\ UNCHANGED nextId
           ELSE \E salt \in Salts :
                /\ req' = [req EXCEPT ![s] = [@ EXCEPT !.pc = "insert",
                       !.doc = Some(User(nextId, user_data,
                                   hash_password(user_data.password, salt), clock))]]
                /\ nextId' = nextId + 1
    /\ UNCHANGED <<clock, db, tokens, nreq>>

register_insert(s) ==
    /\ At(s, "register", "insert")
    /\ LET user == Get(req[s].doc)
           access_token == create_access_token(user.id, clock)
       IN  /\ db' = [db EXCEPT !.users = InsertOne(@, user)]
           /\ tokens' = tokens \cup {Issued(access_token, user.id, clock)}
           /\ req' = [req EXCEPT ![s] = Finish(@, Ok(TokenResponse(access_token, user)))]
    /\ UNCHANGED <<clock, nextId, nreq>>

(* POST /auth/login *)
login(s) ==
    /\ At(s, "login", "find")
    /\ LET login_data == Get(req[s].payload)
           user == FindOne(db.users, [username |-> login_data.username])
       IN  IF IsNone(user)
              \/ ~verify_password(login_data.password, Get(user).password_hash)
           THEN /\ req' = [req EXCEPT ![s] = Finish(@,
                       HTTPException(401, "Invalid username or password"))]
                /\ UNCHANGED tokens
           ELSE LET access_token == create_access_token(Get(user).id, clock)
                IN  /\ tokens' = tokens \cup {Issued(access_token, Get(user).id, clock)}
                    /\ req' = [req EXCEPT ![s] = Finish(@,
                           Ok(TokenResponse(access_token, Get(user))))]
    /\ UNCHANGED <<clock, db, nextId, nreq>>

(* GET /auth/me *)
get_me(s) ==
    /\ At(s, "get_me", "auth")
    /\ LET a == get_current_user(req[s].credentials, req[s].received_at, db.users)
       IN  IF IsNone(a.user)
           THEN req' = [req EXCEPT ![s] = Finish(@, a.error)]
           ELSE req' = [req EXCEPT ![s] =
                    Finish([@ EXCEPT !.current_user = a.user],
                           Ok(UserResponse(Get(a.user))))]
    /\ UNCHANGED <<clock, db, nextId, tokens, nreq>>

----------------------------------------------------------------------------
(* DELETE /users/{user_id} *)

(* a variant that looks for the user before it looks at the caller's role *)
delete_user_auth_existence_first(s) ==
    /\ At(s, "delete_user", "auth")
    /\ LET a == get_current_user(req[s].credentials, req[s].received_at, db.users)
           user == FindOne(db.users, [id |-> req[s].target])
       IN  IF IsNone(a.user)
           THEN req' = [req EXCEPT ![s] = Finish(@, a.error)]
           ELSE IF IsNone(user)
           THEN req' = [req EXCEPT ![s] = Finish(@,
                    HTTPException(404, "User not found"))]
           ELSE IF Get(a.user).role # "admin"
           THEN req' = [req EXCEPT ![s] = Finish(@,
                    HTTPException(403, "Admin access required"))]
           ELSE req' = [req EXCEPT ![s] =
                    [@ EXCEPT !.pc = "delete", !.current_user = a.user]]
    /\ UNCHANGED <<clock, db, nextId, tokens, nreq>>

delete_user_auth(s) ==
    /\ At(s, "delete_user", "auth")
    /\ LET a == get_admin_user(req[s].credentials, req[s].received_at, db.users)
       IN  IF IsNone(a.user)
           THEN req' = [req EXCEPT ![s] = Finish(@, a.error)]
           ELSE req' = [req EXCEPT ![s] =
                    [@ EXCEPT !.pc = "delete", !.current_user = a.user]]
    /\ UNCHANGED <<clock, db, nextId, tokens, nreq>>

(* a variant that also removes what the user created *)
delete_user_cascading(s) ==
    /\ At(s, "delete_user", "delete")
    /\ LET result == DeleteOne(db.users, [id |-> req[s].target])
           Kept(coll) == SelectSeq(coll, LAMBDA d : d.created_by # req[s].target)
       IN  /\ db' = [db EXCEPT !.users = result.coll, !.bugs = Kept(@),
                                !.fixes = Kept(@), !.ideas = Kept(@)]
           /\ IF result.deleted_count = 0
              THEN req' = [req EXCEPT ![s] = Finish(@,
                       HTTPException(404, "User not found"))]
              ELSE req' = [req EXCEPT ![s] = Finish(@,
                       Ok([message |-> "User deleted successfully"]))]
    /\ UNCHANGED <<clock, nextId, tokens, nreq>>

delete_user(s) ==
    /\ At(s, "delete_user", "delete")
    /\ LET result == DeleteOne(db.users, [id |-> req[s].target])
       IN  /\ db' = [db EXCEPT !.users = result.coll]
           /\ IF result.deleted_count = 0
              THEN req' = [req EXCEPT ![s] = Finish(@,
                       HTTPException(404, "User not found"))]
              ELSE req' = [req EXCEPT ![s] = Finish(@,
                       Ok([message |-> "User deleted successfully"]))]
    /\ UNCHANGED <<clock, nextId, tokens, nreq>>

----------------------------------------------------------------------------
(* Bug routes *)

(* POST /bugs *)
create_bug_auth(s) ==
    /\ At(s, "create_bug", "auth")
    /\ LET a == get_current_user(req[s].credentials, req[s].received_at, db.users)
       IN  IF IsNone(a.user)
           THEN /\ req' = [req EXCEPT ![s] = Finish(@, a.error)]
                /\ UNCHANGED nextId
           ELSE /\ req' = [req EXCEPT ![s] = [@ EXCEPT !.pc = "insert",
                       !.current_user = a.user,
                       !.doc = Some(Bug(nextId, Get(req[s].payload),
                                        Get(a.user).id, clock))]]
                /\ nextId' = nextId + 1
    /\ UNCHANGED <<clock, db, tokens, nreq>>

create_bug(s) ==
    /\ At(s, "create_bug", "insert")
    /\ db' = [db EXCEPT !.bugs = InsertOne(@, Get(req[s].doc))]
    /\ req' = [req EXCEPT ![s] = Finish(@, Ok(Get(req[s].doc)))]
    /\ UNCHANGED <<clock, nextId, tokens, nreq>>

(* PUT /bugs/{bug_id} *)
update_bug_auth(s) ==
    /\ At(s, "update_bug", "auth")
    /\ LET a == get_current_user(req[s].credentials, req[s].received_at, db.users)
       IN  IF IsNone(a.user)
           THEN req' = [req EXCEPT ![s] = Finish(@, a.error)]
           ELSE req' = [req EXCEPT ![s] =
                    [@ EXCEPT !.pc = "find", !.current_user = a.user]]
    /\ UNCHANGED <<clock, db, nextId, tokens, nreq>>

(* a variant that looks at the caller's role before the bug's existence *)
update_bug_find_role_first(s) ==
    /\ At(s, "update_bug", "find")
    /\ LET bug == FindOne(db.bugs, [id |-> req[s].target])
           current_user == Get(req[s].current_user)
       IN  IF current_user.role # "admin"
              /\ (IsNone(bug) \/ Get(bug).created_by # current_user.id)
           THEN req' = [req EXCEPT ![s] = Finish([@ EXCEPT !.doc = bug],
                    HTTPException(403, "Permission denied"))]
           ELSE IF IsNone(bug)
           THEN req' = [req EXCEPT ![s] = Finish(@,
                    HTTPException(404, "Bug not found"))]
           ELSE req' = [req EXCEPT ![s] = [@ EXCEPT !.pc = "update",
                    !.doc = bug,
                    !.update_data = WithItem(NotNoneItems(Get(req[s].payload)), "updated_at", clock)]]
    /\ UNCHANGED <<clock, db, nextId, tokens, nreq>>

update_bug_find(s) ==
    /\ At(s, "update_bug", "find")
    /\ LET bug == FindOne(db.bugs, [id |-> req[s].target])
       IN  IF IsNone(bug)
           THEN req' = [req EXCEPT ![s] = Finish(@,
                    HTTPException(404, "Bug not found"))]
           ELSE IF PermissionDenied(Get(req[s].current_user), Get(bug))
           THEN req' = [req EXCEPT ![s] = Finish([@ EXCEPT !.doc = bug],
                    HTTPException(403, "Permission denied"))]
           ELSE req' = [req EXCEPT ![s] = [@ EXCEPT !.pc = "update",
                    !.doc = bug,
                    !.update_data = WithItem(NotNoneItems(Get(req[s].payload)), "updated_at", clock)]]
    /\ UNCHANGED <<clock, db, nextId, tokens, nreq>>

update_bug_update(s) ==
    /\ At(s, "update_bug", "update")
    /\ db' = [db EXCEPT !.bugs =
                 UpdateOne(@, [id |-> req[s].target], req[s].update_data)]
    /\ req' = [req EXCEPT ![s] = [@ EXCEPT !.pc = "reread"]]
    /\ UNCHANGED <<clock, nextId, tokens, nreq>>

(* the handler reads the document back and returns it; building the Bug
   from None raises TypeError when the document is gone *)
update_bug_reread(s) ==
    /\ At(s, "update_bug", "reread")
    /\ LET updated_bug == FindOne(db.bugs, [id |-> req[s].target])
       IN  IF IsNone(updated_bug)
           THEN req' = [req EXCEPT ![s] = Finish(@, InternalServerError)]
           ELSE req' = [req EXCEPT ![s] = Finish(@, Ok(Get(updated_bug)))]
    /\ UNCHANGED <<clock, db, nextId, tokens, nreq>>

(* DELETE /bugs/{bug_id} *)
delete_bug_auth(s) ==
    /\ At(s, "delete_bug", "auth")
    /\ LET a == get_current_user(req[s].credentials, req[s].received_at, db.users)
       IN  IF IsNone(a.user)
           THEN req' = [req EXCEPT ![s] = Finish(@, a.error)]
           ELSE req' = [req EXCEPT ![s] =
                    [@ EXCEPT !.pc = "find", !.current_user = a.user]]
    /\ UNCHANGED <<clock, db, nextId, tokens, nreq>>

delete_bug_find(s) ==
    /\ At(s, "delete_bug", "find")
    /\ LET bug == FindOne(db.bugs, [id |-> req[s].target])
       IN  IF IsNone(bug)
           THEN req' = [req EXCEPT ![s] = Finish(@,
                    HTTPException(404, "Bug not found"))]
           ELSE IF PermissionDenied(Get(req[s].current_user), Get(bug))
           THEN req' = [req EXCEPT ![s] = Finish([@ EXCEPT !.doc = bug],
                    HTTPException(403, "Permission denied"))]
           ELSE req' = [req EXCEPT ![s] = [@ EXCEPT !.pc = "delete", !.doc = bug]]
    /\ UNCHANGED <<clock, db, nextId, tokens, nreq>>

delete_bug(s) ==
    /\ At(s, "delete_bug", "delete")
    /\ db' = [db EXCEPT !.bugs =
                 DeleteOne(@, [id |-> req[s].target]).coll]
    /\ req' = [req EXCEPT ![s] = Finish(@,
                 Ok([message |-> "Bug deleted successfully"]))]
    /\ UNCHANGED <<clock, nextId, tokens, nreq>>

----------------------------------------------------------------------------
(* Fix routes *)

(* POST /fixes *)
create_fix_auth(s) ==
    /\ At(s, "create_fix", "auth")
    /\ LET a == get_current_user(req[s].credentials, req[s].received_at, db.users)
       IN  IF IsNone(a.user)
           THEN /\ req' = [req EXCEPT ![s] = Finish(@, a.error)]
                /\ UNCHANGED nextId
           ELSE /\ req' = [req EXCEPT ![s] = [@ EXCEPT !.pc = "insert",
                       !.current_user = a.user,
                       !.doc = Some(Fix(nextId, Get(req[s].payload),
                                        Get(a.user).id, clock))]]
                /\ nextId' = nextId + 1
    /\ UNCHANGED <<clock, db, tokens, nreq>>

create_fix(s) ==
    /\ At(s, "create_fix", "insert")
    /\ db' = [db EXCEPT !.fixes = InsertOne(@, Get(req[s].doc))]
    /\ req' = [req EXCEPT ![s] = Finish(@, Ok(Get(req[s].doc)))]
    /\ UNCHANGED <<clock, nextId, tokens, nreq>>

(* PUT /fixes/{fix_id} *)
update_fix_auth(s) ==
    /\ At(s, "update_fix", "auth")
    /\ LET a == get_current_user(req[s].credentials, req[s].received_at, db.users)
       IN  IF IsNone(a.user)
           THEN req' = [req EXCEPT ![s] = Finish(@, a.error)]
           ELSE req' = [req EXCEPT ![s] =
                    [@ EXCEPT !.pc = "find", !.current_user = a.user]]
    /\ UNCHANGED <<clock, db, nextId, tokens, nreq>>

update_fix_find(s) ==
    /\ At(s, "update_fix", "find")
    /\ LET fix == FindOne(db.fixes, [id |-> req[s].target])
       IN  IF IsNone(fix)
           THEN req' = [req EXCEPT ![s] = Finish(@,
                    HTTPException(404, "Fix not found"))]
           ELSE IF PermissionDenied(Get(req[s].current_user), Get(fix))
           THEN req' = [req EXCEPT ![s] = Finish([@ EXCEPT !.doc = fix],
                    HTTPException(403, "Permission denied"))]
           ELSE req' = [req EXCEPT ![s] = [@ EXCEPT !.pc = "update",
                    !.doc = fix,
                    !.update_data = NotNoneItems(Get(req[s].payload))]]
    /\ UNCHANGED <<clock, db, nextId, tokens, nreq>>

update_fix_update(s) ==
    /\ At(s, "update_fix", "update")
    /\ \E accepted \in SetAccepted(req[s].update_data) :
        IF accepted
        THEN /\ db' = [db EXCEPT !.fixes =
                     UpdateOne(@, [id |-> req[s].target], req[s].update_data)]
             /\ req' = [req EXCEPT ![s] = [@ EXCEPT !.pc = "reread"]]
        ELSE /\ req' = [req EXCEPT ![s] = Finish(@, InternalServerError)]
             /\ UNCHANGED db
    /\ UNCHANGED <<clock, nextId, tokens, nreq>>

(* the handler reads the document back and returns it; building the Fix
   from None raises TypeError when the document is gone *)
update_fix_reread(s) ==
    /\ At(s, "update_fix", "reread")
    /\ LET updated_fix == FindOne(db.fixes, [id |-> req[s].target])
       IN  IF IsNone(updated_fix)
           THEN req' = [req EXCEPT ![s] = Finish(@, InternalServerError)]
           ELSE req' = [req EXCEPT ![s] = Finish(@, Ok(Get(updated_fix)))]
    /\ UNCHANGED <<clock, db, nextId, tokens, nreq>>

----------------------------------------------------------------------------
(* Deployment routes *)

(* POST /deployments *)
create_deployment_auth(s) ==
    /\ At(s, "create_deployment", "auth")
    /\ LET a == get_current_user(req[s].credentials, req[s].received_at, db.users)
       IN  IF IsNone(a.user)
           THEN /\ req' = [req EXCEPT ![s] = Finish(@, a.error)]
                /\ UNCHANGED nextId
           ELSE /\ req' = [req EXCEPT ![s] = [@ EXCEPT !.pc = "insert",
                       !.current_user = a.user,
                       !.doc = Some(Deployment(nextId, Get(req[s].payload),
                                        Get(a.user).id, clock))]]
                /\ nextId' = nextId + 1
    /\ UNCHANGED <<clock, db, tokens, nreq>>

create_deployment(s) ==
    /\ At(s, "create_deployment", "insert")
    /\ db' = [db EXCEPT !.deployments = InsertOne(@, Get(req[s].doc))]
    /\ req' = [req EXCEPT ![s] = Finish(@, Ok(Get(req[s].doc)))]
    /\ UNCHANGED <<clock, nextId, tokens, nreq>>

----------------------------------------------------------------------------
(* Idea routes *)

(* POST /ideas *)
create_idea_auth(s) ==
    /\ At(s, "create_idea", "auth")
    /\ LET a == get_current_user(req[s].credentials, req[s].received_at, db.users)
       IN  IF IsNone(a.user)
           THEN /\ req' = [req EXCEPT ![s] = Finish(@, a.error)]
                /\ UNCHANGED nextId
           ELSE /\ req' = [req EXCEPT ![s] = [@ EXCEPT !.pc = "insert",
                       !.current_user = a.user,
                       !.doc = Some(Idea(nextId, Get(req[s].payload),
                                        Get(a.user).id, clock))]]
                /\ nextId' = nextId + 1
    /\ UNCHANGED <<clock, db, tokens, nreq>>

create_idea(s) ==
    /\ At(s, "create_idea", "insert")
    /\ db' = [db EXCEPT !.ideas = InsertOne(@, Get(req[s].doc))]
    /\ req' = [req EXCEPT ![s] = Finish(@, Ok(Get(req[s].doc)))]
    /\ UNCHANGED <<clock, nextId, tokens, nreq>>

(* PUT /ideas/{idea_id} *)
update_idea_auth(s) ==
    /\ At(s, "update_idea", "auth")
    /\ LET a == get_current_user(req[s].credentials, req[s].received_at, db.users)
       IN  IF IsNone(a.user)
           THEN req' = [req EXCEPT ![s] = Finish(@, a.error)]
           ELSE req' = [req EXCEPT ![s] =
                    [@ EXCEPT !.pc = "find", !.current_user = a.user]]
    /\ UNCHANGED <<clock, db, nextId, tokens, nreq>>

update_idea_find(s) ==
    /\ At(s, "update_idea", "find")
    /\ LET idea == FindOne(db.ideas, [id |-> req[s].target])
       IN  IF IsNone(idea)
           THEN req' = [req EXCEPT ![s] = Finish(@,
                    HTTPException(404, "Idea not found"))]
           ELSE IF PermissionDenied(Get(req[s].current_user), Get(idea))
           THEN req' = [req EXCEPT ![s] = Finish([@ EXCEPT !.doc = idea],
                    HTTPException(403, "Permission denied"))]
           ELSE req' = [req EXCEPT ![s] = [@ EXCEPT !.pc = "update",
                    !.doc = idea,
                    !.update_data = NotNoneItems(Get(req[s].payload))]]
    /\ UNCHANGED <<clock, db, nextId, tokens, nreq>>

update_idea_update(s) ==
    /\ At(s, "update_idea", "update")
    /\ \E accepted \in SetAccepted(req[s].update_data) :
        IF accepted
        THEN /\ db' = [db EXCEPT !.ideas =
                     UpdateOne(@, [id |-> req[s].target], req[s].update_data)]
             /\ req' = [req EXCEPT ![s] = [@ EXCEPT !.pc = "reread"]]
        ELSE /\ req' = [req EXCEPT ![s] = Finish(@, InternalServerError)]
             /\ UNCHANGED db
    /\ UNCHANGED <<clock, nextId, tokens, nreq>>

(* the handler reads the document back and returns it; building the Idea
   from None raises TypeError when the document is gone *)
update_idea_reread(s) ==
    /\ At(s, "update_idea", "reread")
    /\ LET updated_idea == FindOne(db.ideas, [id |-> req[s].target])
       IN  IF IsNone(updated_idea)
           THEN req' = [req EXCEPT ![s] = Finish(@, InternalServerError)]
           ELSE req' = [req EXCEPT ![s] = Finish(@, Ok(Get(updated_idea)))]
    /\ UNCHANGED <<clock, db, nextId, tokens, nreq>>

----------------------------------------------------------------------------
(* Read routes *)

(* building the response model from a stored document keeps the fields the
   model declares *)
FromDoc(doc, fields) == [f \in fields \cap DOMAIN doc |-> doc[f]]

BugFields ==
    {"id", "title", "description", "priority", "status", "assigned_to",
     "created_by", "created_at", "updated_at"}
FixFields ==
    {"id", "title", "description", "related_bug_id", "status", "created_by",
     "created_at"}
DeploymentFields ==
    {"id", "version", "description", "environment", "deployed_by",
     "deployed_at", "changes_included"}
IdeaFields ==
    {"id", "title", "description", "priority", "status", "created_by",
     "created_at"}

(* Depends(get_current_user) of a route whose handler then reads the store *)
read_auth(s, op) ==
    /\ At(s, op, "auth")
    /\ LET a == get_current_user(req[s].credentials, req[s].received_at, db.users)
       IN  IF IsNone(a.user)
           THEN req' = [req EXCEPT ![s] = Finish(@, a.error)]
           ELSE req' = [req EXCEPT ![s] =
                    [@ EXCEPT !.pc = "find", !.current_user = a.user]]
    /\ UNCHANGED <<clock, db, nextId, tokens, nreq>>

(* docs = await coll.find().to_list(1000); return the models built
   from docs *)
to_list_response(s, op, coll, fields) ==
    /\ At(s, op, "find")
    /\ LET docs == ToList(coll, ListLimit)
       IN  req' = [req EXCEPT ![s] = Finish(@,
                    Ok([i \in 1..Len(docs) |-> FromDoc(docs[i], fields)]))]
    /\ UNCHANGED <<clock, db, nextId, tokens, nreq>>

(* GET /users *)
get_users_auth(s) == read_auth(s, "get_users")

get_users(s) ==
    /\ At(s, "get_users", "find")
    /\ LET users == ToList(db.users, ListLimit)
       IN  req' = [req EXCEPT ![s] = Finish(@,
                    Ok([i \in 1..Len(users) |-> UserResponse(users[i])]))]
    /\ UNCHANGED <<clock, db, nextId, tokens, nreq>>

(* GET /bugs *)
get_bugs_auth(s) == read_auth(s, "get_bugs")
get_bugs(s) == to_list_response(s, "get_bugs", db.bugs, BugFields)

(* GET /bugs/{bug_id} *)
get_bug_auth(s) == read_auth(s, "get_bug")

get_bug(s) ==
    /\ At(s, "get_bug", "find")
    /\ LET bug == FindOne(db.bugs, [id |-> req[s].target])
       IN  IF IsNone(bug)
           THEN req' = [req EXCEPT ![s] = Finish(@,
                    HTTPException(404, "Bug not found"))]
           ELSE req' = [req EXCEPT ![s] = Finish(@,
                    Ok(FromDoc(Get(bug), BugFields)))]
    /\ UNCHANGED <<clock, db, nextId, tokens, nreq>>

(* GET /fixes *)
get_fixes_auth(s) == read_auth(s, "get_fixes")
get_fixes(s) == to_list_response(s, "get_fixes", db.fixes, FixFields)

(* GET /deployments *)
get_deployments_auth(s) == read_auth(s, "get_deployments")
get_deployments(s) ==
    to_list_response(s, "get_deployments", db.deployments, DeploymentFields)

(* GET /ideas *)
get_ideas_auth(s) == read_auth(s, "get_ideas")
get_ideas(s) == to_list_response(s, "get_ideas", db.ideas, IdeaFields)

----------------------------------------------------------------------------
(* Dashboard route: GET /dashboard *)

(* timedelta(days=7) *)
RecentWindow == RecentDays * 24 * TicksPerHour

DashboardStats(stats) ==
    [f \in {"total_bugs", "open_bugs", "resolved_bugs", "pending_fixes",
            "deployed_fixes", "recent_deployments", "new_ideas",
            "total_users"} |-> stats[f]]

get_dashboard_stats_auth(s) ==
    /\ At(s, "get_dashboard_stats", "auth")
    /\ LET a == get_current_user(req[s].credentials, req[s].received_at, db.users)
       IN  IF IsNone(a.user)
           THEN req' = [req EXCEPT ![s] = Finish(@, a.error)]
           ELSE req' = [req EXCEPT ![s] =
                    [@ EXCEPT !.pc = "total_bugs", !.current_user = a.user]]
    /\ UNCHANGED <<clock, db, nextId, tokens, nreq>>

(* one awaited count_documents: its result is kept under the name of the
   local variable, and the handler goes on to the next count *)
count_step(s, name, next, count) ==
    /\ At(s, "get_dashboard_stats", name)
    /\ req' = [req EXCEPT ![s] =
                 [@ EXCEPT !.pc = next, !.stats = WithItem(@, name, count)]]
    /\ UNCHANGED <<clock, db, nextId, tokens, nreq>>

count_total_bugs(s) ==
    count_step(s, "total_bugs", "open_bugs", CountDocuments(db.bugs, <<>>))

count_open_bugs(s) ==
    count_step(s, "open_bugs", "resolved_bugs",
               CountDocuments(db.bugs, [status |-> "open"]))

count_resolved_bugs(s) ==
    count_step(s, "resolved_bugs", "pending_fixes",
               CountDocuments(db.bugs, [status |-> "resolved"]))

count_pending_fixes(s) ==
    count_step(s, "pending_fixes", "deployed_fixes",
               CountDocuments(db.fixes, [status |-> "pending"]))

(* when this count returns the handler builds the filter of the next one,
   reading the clock, and then awaits that count *)
count_deployed_fixes(s) ==
    /\ At(s, "get_dashboard_stats", "deployed_fixes")
    /\ req' = [req EXCEPT ![s] =
                 [@ EXCEPT !.pc = "recent_deployments",
                           !.stats = WithItem(@, "deployed_fixes",
                               CountDocuments(db.fixes, [status |-> "deployed"])),
                           !.filter = [gte |-> [deployed_at |->
                                                   clock - RecentWindow]]]]
    /\ UNCHANGED <<clock, db, nextId, tokens, nreq>>

(* a variant that counts the releases of all time *)
count_recent_deployments_all_time(s) ==
    /\ At(s, "get_dashboard_stats", "recent_deployments")
    /\ req' = [req EXCEPT ![s] =
                 [@ EXCEPT !.pc = "new_ideas",
                           !.stats = WithItem(@, "recent_deployments",
                               CountDocuments(db.deployments, <<>>)),
                           !.filter = <<>>]]
    /\ UNCHANGED <<clock, db, nextId, tokens, nreq>>

count_recent_deployments(s) ==
    /\ At(s, "get_dashboard_stats", "recent_deployments")
    /\ req' = [req EXCEPT ![s] =
                 [@ EXCEPT !.pc = "new_ideas",
                           !.stats = WithItem(@, "recent_deployments",
                               CountDocuments(db.deployments, req[s].filter)),
                           !.filter = <<>>]]
    /\ UNCHANGED <<clock, db, nextId, tokens, nreq>>

count_new_ideas(s) ==
    count_step(s, "new_ideas", "total_users",
               CountDocuments(db.ideas, [status |-> "new"]))

(* the last count, and the response built from all eight *)
count_total_users(s) ==
    /\ At(s, "get_dashboard_stats", "total_users")
    /\ LET total_users == CountDocuments(db.users, <<>>)
       IN  req' = [req EXCEPT ![s] = Finish([@ EXCEPT !.stats = <<>>],
                    Ok(DashboardStats(
                           WithItem(req[s].stats, "total_users", total_users))))]
    /\ UNCHANGED <<clock, db, nextId, tokens, nreq>>

DashboardSteps(s) ==
    \/ get_dashboard_stats_auth(s)
    \/ count_total_bugs(s)
    \/ count_open_bugs(s)
    \/ count_resolved_bugs(s)
    \/ count_pending_fixes(s)
    \/ count_deployed_fixes(s)
    \/ count_recent_deployments(s)
    \/ count_new_ideas(s)
    \/ count_total_users(s)

----------------------------------------------------------------------------
(* The next-state relation *)

UserSteps(s) ==
    \/ register_find(s)
    \/ register_insert(s)
    \/ login(s)
    \/ get_me(s)
    \/ delete_user_auth(s)
    \/ delete_user(s)

ListSteps(s) ==
    \/ get_users_auth(s)
    \/ get_users(s)
    \/ get_bugs_auth(s)
    \/ get_bugs(s)
    \/ get_fixes_auth(s)
    \/ get_fixes(s)
    \/ get_deployments_auth(s)
    \/ get_deployments(s)
    \/ get_ideas_auth(s)
    \/ get_ideas(s)

ReadSteps(s) ==
    \/ ListSteps(s)
    \/ get_bug_auth(s)
    \/ get_bug(s)

EntitySteps(s) ==
    \/ create_bug_auth(s)
    \/ create_bug(s)
    \/ update_bug_auth(s)
    \/ update_bug_find(s)
    \/ update_bug_update(s)
    \/ update_bug_reread(s)
    \/ delete_bug_auth(s)
    \/ delete_bug_find(s)
    \/ delete_bug(s)
    \/ create_fix_auth(s)
    \/ create_fix(s)
    \/ update_fix_auth(s)
    \/ update_fix_find(s)
    \/ update_fix_update(s)
    \/ update_fix_reread(s)
    \/ create_deployment_auth(s)
    \/ create_deployment(s)
    \/ create_idea_auth(s)
    \/ create_idea(s)
    \/ update_idea_auth(s)
    \/ update_idea_find(s)
    \/ update_idea_update(s)
    \/ update_idea_reread(s)

Next ==
    \/ Advance(ExpiryTimeline)
    \/ \E s \in Slots :
        \/ Receive(s, Requests, MaxRequests)
        \/ UserSteps(s)
        \/ EntitySteps(s)
        \/ ReadSteps(s)
        \/ DashboardSteps(s)

Spec == Init /\ [][Next]_vars

(* The user routes alone, from the empty store, over a time line that
   reaches the expiry of the first tokens. *)
NextUsers ==
    \/ Advance(ExpiryTimeline)
    \/ \E s \in Slots :
        \/ Receive(s, OpenRequests \cup UserRequests(CredentialInputs), MaxRequests)
        \/ UserSteps(s)

SpecUsers == Init /\ [][NextUsers]_vars

(* The store after a, b and c have registered and b has created one bug,
   one fix and one idea, all at instant 0. *)
SeedUser(id, name, role) ==
    User(id, [username |-> name, email |-> name \o "@x", password |-> "pw1", role |-> role],
         hash_password("pw1", "s1"), 0)

SeedUsers ==
    <<SeedUser(1, "a", "admin"), SeedUser(2, "b", "developer"),
      SeedUser(3, "c", "developer")>>

InitSeeded ==
    /\ clock = 0
    /\ db = [users |-> SeedUsers,
             bugs |-> <<Bug(4, [title |-> "t1", description |-> "d1",
                                priority |-> Null, assigned_to |-> Null], 2, 0)>>,
             fixes |-> <<Fix(5, [title |-> "t1", description |-> "d1",
                                 related_bug_id |-> Null], 2, 0)>>,
             deployments |-> <<>>,
             ideas |-> <<Idea(6, [title |-> "t1", description |-> "d1",
                                  priority |-> Null], 2, 0)>>]
    /\ nextId = 7
    /\ tokens = {Issued(create_access_token(u, 0), u, 0) : u \in 1..3}
    /\ req = [s \in Slots |-> IdleRequest]
    /\ nreq = 0

(* The routes that change the store, called by the holders of issued tokens *)
NextSeeded ==
    \/ Advance(ShortTimeline)
    \/ \E s \in Slots :
        \/ Receive(s, CallerRequests("delete_user", IssuedCredentials,
                                     TargetInputs(db.users), {None})
                      \cup EntityRequests(IssuedCredentials), MaxSeededRequests)
        \/ delete_user_auth(s)
        \/ delete_user(s)
        \/ EntitySteps(s)

SpecSeeded == InitSeeded /\ [][NextSeeded]_vars

(* The list routes over a store that holds as many entities of every kind
   as to_list is asked for, one more, or next to none; b and c own them in
   turn. *)
ListingSizes == {0, 1, ListLimit, ListLimit + 1}

SeedOwner(i) == 2 + (i % 2)

InitListing ==
    \E n \in ListingSizes :
        /\ clock = 0
        /\ db = [users |-> SeedUsers,
                 bugs |-> [i \in 1..n |->
                     Bug(3 + i, [title |-> "t1", description |-> "d1",
                                 priority |-> Null, assigned_to |-> Null],
                         SeedOwner(i), 0)],
                 fixes |-> [i \in 1..n |->
                     Fix(3 + n + i, [title |-> "t1", description |-> "d1",
                                     related_bug_id |-> Null], SeedOwner(i), 0)],
                 deployments |-> [i \in 1..n |->
                     Deployment(3 + 2 * n + i,
                                [version |-> "v1", description |-> "d1",
                                 environment |-> "prod",
                                 changes_included |-> <<>>], SeedOwner(i), 0)],
                 ideas |-> [i \in 1..n |->
                     Idea(3 + 3 * n + i, [title |-> "t1", description |-> "d1",
                                          priority |-> Null], SeedOwner(i), 0)]]
        /\ nextId = 4 + 4 * n
        /\ tokens = {Issued(create_access_token(u, 0), u, 0) : u \in 1..3}
        /\ req = [s \in Slots |-> IdleRequest]
        /\ nreq = 0

NextListing ==
    \E s \in Slots :
        \/ Receive(s, ListRequests(IssuedCredentials), MaxListingRequests)
        \/ ListSteps(s)

SpecListing == InitListing /\ [][NextListing]_vars

(* The dashboard over stores that nobody is writing to.  a, b and c have
   registered at instant 0 and the entities were created at instants 0 and 1;
   the bugs, fixes and ideas have since been moved to the statuses given.
   The time line reaches the end of the week after those instants, where the
   callers have to log in again. *)
StatsTimeline == {RecentWindow, RecentWindow + 1, RecentWindow + 2}

SeedBug(id, status) ==
    [Bug(id, [title |-> "t1", description |-> "d1", priority |-> Null,
              assigned_to |-> Null], 2, 0) EXCEPT !.status = status]

SeedFix(id, status) ==
    [Fix(id, [title |-> "t1", description |-> "d1", related_bug_id |-> Null],
         2, 0) EXCEPT !.status = status]

SeedIdea(id, status) ==
    [Idea(id, [title |-> "t1", description |-> "d1", priority |-> Null], 3, 0)
        EXCEPT !.status = status]

SeedDeployment(id, now) ==
    Deployment(id, [version |-> "v1", description |-> "d1",
                    environment |-> "prod", changes_included |-> <<>>], 1, now)

SeedBugs ==
    {<<>>,
     <<SeedBug(4, "open"), SeedBug(5, "open"), SeedBug(6, "resolved")>>,
     <<SeedBug(4, "in_progress"), SeedBug(5, "resolved")>>}

SeedFixes ==
    {<<>>, <<SeedFix(7, "pending"), SeedFix(8, "deployed"), SeedFix(9, "deployed")>>}

SeedDeployments ==
    {<<>>, <<SeedDeployment(10, 0), SeedDeployment(11, 1)>>}

SeedIdeas ==
    {<<>>, <<SeedIdea(12, "new"), SeedIdea(13, "approved")>>}

InitStats ==
    /\ clock = 1
    /\ \E bugs \in SeedBugs, fixes \in SeedFixes,
          deployments \in SeedDeployments, ideas \in SeedIdeas :
           db = [users |-> SeedUsers, bugs |-> bugs, fixes |-> fixes,
                 deployments |-> deployments, ideas |-> ideas]
    /\ nextId = 14
    /\ tokens = {Issued(create_access_token(u, 0), u, 0) : u \in 1..3}
    /\ req = [s \in Slots |-> IdleRequest]
    /\ nreq = 0

NextStats ==
    \/ Advance(StatsTimeline)
    \/ \E s \in Slots :
        \/ Receive(s, {NewRequest("login", "find", None, 0, Some(l)) :
                           l \in UserLoginInputs}
                      \cup DashboardRequests(IssuedCredentials),
                   MaxStatsRequests)
        \/ login(s)
        \/ DashboardSteps(s)

SpecStats == InitStats /\ [][NextStats]_vars

(* Every route that requires a caller, over the seeded store, called with no
   token, with tokens the server did not issue, and with the tokens issued
   to a and to c, which expire at the end of the time line and stop
   resolving once the user is deleted. *)
GateCredentials ==
    {None, HTTPAuthorizationCredentials("Basic", MalformedToken),
     Bearer(MalformedToken), Bearer(ForgedToken(clock))}
    \cup {Bearer(e.token) : e \in {i \in tokens : i.subject \in {1, 3}}}

StoredIds(coll) == {d.id : d \in Docs(coll)}

GateRequests ==
    LET c == GateCredentials
    IN  CallerRequests("get_me", c, {0}, {None})
        \cup ListRequests(c)
        \cup DashboardRequests(c)
        \cup CallerRequests("delete_user", c, {3}, {None})
        \cup CallerRequests("get_bug", c, StoredIds(db.bugs), {None})
        \cup CallerRequests("delete_bug", c, StoredIds(db.bugs), {None})
        \cup CallerRequests("create_bug", c, {0},
                            WithBody({i \in BugCreateInputs : i.priority = Null}))
        \cup CallerRequests("update_bug", c, StoredIds(db.bugs),
                            WithBody({i \in BugUpdateInputs : i.title # Null}))
        \cup CallerRequests("create_fix", c, {0}, WithBody(FixCreateInputs))
        \cup CallerRequests("update_fix", c, StoredIds(db.fixes),
                            WithBody({i \in FixUpdateInputs : i.description # Null}))
        \cup CallerRequests("create_deployment", c, {0},
                            WithBody(DeploymentCreateInputs))
        \cup CallerRequests("create_idea", c, {0}, WithBody(IdeaCreateInputs))
        \cup CallerRequests("update_idea", c, StoredIds(db.ideas),
                            WithBody({i \in IdeaUpdateInputs : i.title # Null}))

NextGate ==
    \/ Advance({TokenLifetime})
    \/ \E s \in Slots :
        \/ Receive(s, GateRequests, MaxGateRequests)
        \/ get_me(s)
        \/ delete_user_auth(s)
        \/ delete_user(s)
        \/ EntitySteps(s)
        \/ ReadSteps(s)
        \/ DashboardSteps(s)

SpecGate == InitSeeded /\ [][NextGate]_vars

----------------------------------------------------------------------------
(* Properties *)

(* slot s takes the step *)
Stepped(s) == req'[s] # req[s]

(* the request in slot s has ended with this status *)
Ended(s, status) == req[s].pc = "done" /\ req[s].response.status = status
EndsNow(s, status) ==
    Stepped(s) /\ req'[s].pc = "done" /\ req'[s].response.status = status

(* the update and delete routes of the tracked entities *)
Mutators == {"update_bug", "delete_bug", "update_fix", "update_idea"}

CollectionOf(op) ==
    CASE op \in {"update_bug", "delete_bug"} -> "bugs"
      [] op = "update_fix" -> "fixes"
      [] op = "update_idea" -> "ideas"

Stored(coll, id) == FindOne(db[coll], [id |-> id])

(* canMutate(user, entity) of the specification *)
CanMutate(user, entity) ==
    user.role = "admin" \/ entity.created_by = user.id

C1_Fetch(s) ==
    LET r == req[s]
        e == Stored(CollectionOf(r.op), r.target)
    IN  (r.op \in Mutators /\ r.pc = "find" /\ Stepped(s) /\ ~IsNone(e)) =>
            IF CanMutate(Get(r.current_user), Get(e))
            THEN req'[s].pc \in {"update", "delete"} /\ req'[s].doc = e
            ELSE EndsNow(s, 403)

C1_Refusal(s) ==
    (req[s].op \in Mutators /\ EndsNow(s, 403)) => db' = db

C1_StoreGate ==
    \A coll \in {"bugs", "fixes", "ideas"} :
        \A d \in Docs(db[coll]) :
            d \notin Docs(db'[coll]) =>
                \E s \in Slots :
                    /\ Stepped(s)
                    /\ req[s].op \in Mutators
                    /\ CollectionOf(req[s].op) = coll
                    /\ req[s].pc \in {"update", "delete"}
                    /\ req[s].target = d.id
                    /\ CanMutate(Get(req[s].current_user), d)

(* C1: a stored defect, remediation or proposal is changed or removed only by
   the persist step of an update or delete whose caller is an administrator
   or the entity's creator; at the permission check of an existing entity
   such a caller goes on to the persist step, and every other caller ends
   with 403 and a step that leaves the store as it was. *)
C1_OwnershipGate ==
    [][(\A s \in Slots : C1_Fetch(s) /\ C1_Refusal(s)) /\ C1_StoreGate]_vars

(* a developer was refused on another user's entity while an administrator
   who does not own the entity got it updated *)
C1_Witness ==
    \E s1, s2 \in Slots :
        /\ req[s1].op \in Mutators /\ Ended(s1, 403)
        /\ ~CanMutate(Get(req[s1].current_user), Get(req[s1].doc))
        /\ req[s2].op \in Mutators /\ Ended(s2, 200)
        /\ Get(req[s2].current_user).role = "admin"
        /\ Get(req[s2].doc).created_by # Get(req[s2].current_user).id

C4_Fetch(s) ==
    LET r == req[s]
        e == Stored(CollectionOf(r.op), r.target)
    IN  (r.op \in Mutators /\ Stepped(s) /\ r.pc # "auth") =>
            /\ (r.pc = "find" /\ IsNone(e)) => EndsNow(s, 404)
            /\ EndsNow(s, 403) => (r.pc = "find" /\ ~IsNone(e))

(* C4: in update and delete of a tracked entity the fetch of a missing target
   ends with 404 whoever the caller is, and 403 is answered only at the
   fetch of a target that exists. *)
C4_ExistenceFirst == [][\A s \in Slots : C4_Fetch(s)]_vars

(* a developer's update of an entity that once existed ended with 404 *)
C4_Witness ==
    \E s \in Slots :
        /\ req[s].op \in Mutators /\ Ended(s, 404)
        /\ req[s].target # UnknownId
        /\ Get(req[s].current_user).role = "developer"

(* the user a request with these credentials is made by: the stored user
   that an issued bearer token, unexpired at the instant now, names, if
   there is one *)
IsBearer(credentials) ==
    ~IsNone(credentials) /\ Get(credentials).scheme = "Bearer"

TokenOf(credentials) == Get(credentials).credentials

Caller(credentials, now) ==
    IF ~IsBearer(credentials) THEN None
    ELSE IF TokenOf(credentials) \notin IssuedTokens THEN None
    ELSE IF now >= TokenOf(credentials).exp * TicksPerSecond THEN None
    ELSE Stored("users", Get(TokenOf(credentials).sub))

UserIds == {u.id : u \in Docs(db.users)}

C3_Resolve(s) ==
    LET r == req[s]
    IN  (/\ r.pc = "auth" /\ Stepped(s)
         /\ IsBearer(r.credentials)
         /\ TokenOf(r.credentials) \in IssuedTokens
         /\ Get(TokenOf(r.credentials).sub) \notin UserIds)
        => /\ EndsNow(s, 401)
           /\ db' = db /\ nextId' = nextId /\ tokens' = tokens

C3_Actor(s) ==
    LET r == req[s]
    IN  (Stepped(s) /\ db' # db /\ r.op \notin {"register", "login"})
        => r.pc \notin {"auth", "done", "idle"} /\ ~IsNone(r.current_user)

(* C3: a request that resolves an issued token whose subject is no longer in
   the user collection ends with 401 in that step and changes nothing; only a
   request that got past the resolution, with a user record, changes the
   store. *)
C3_DeletedUserRejected ==
    [][\A s \in Slots : C3_Resolve(s) /\ C3_Actor(s)]_vars

(* an update or delete carrying the unexpired token of a deleted user ended
   with 401 *)
C3_Witness ==
    \E s \in Slots :
        /\ req[s].op \in Mutators /\ Ended(s, 401)
        /\ TokenOf(req[s].credentials) \in IssuedTokens
        /\ clock < TokenOf(req[s].credentials).exp * TicksPerSecond
        /\ Get(TokenOf(req[s].credentials).sub) \notin UserIds
        /\ req[s].target # UnknownId

C5_Entities(s) ==
    LET r == req[s]
    IN  (/\ r.op \in Mutators /\ r.pc = "find" /\ Stepped(s)
         /\ IsNone(Stored(CollectionOf(r.op), r.target))
         /\ Get(r.current_user).role # "admin")
        => EndsNow(s, 404)

C5_NonAdminOnMissingUser(s) ==
    LET r == req[s]
        caller == Caller(r.credentials, r.received_at)
    IN  /\ r.op = "delete_user" /\ r.pc = "auth" /\ Stepped(s)
        /\ ~IsNone(caller) /\ Get(caller).role # "admin"
        /\ IsNone(Stored("users", r.target))

(* C5 as stated: whenever the addressed record is missing and the caller
   lacks the permission the operation needs, the answer is 404; delete-user
   by a non-administrator on an unknown identity included. *)
C5_NotFoundAlwaysFirst ==
    [][\A s \in Slots :
        /\ C5_Entities(s)
        /\ C5_NonAdminOnMissingUser(s) => EndsNow(s, 404)]_vars

C5_DeleteUser(s) ==
    LET r == req[s]
        caller == Caller(r.credentials, r.received_at)
    IN  (r.op = "delete_user" /\ Stepped(s)) =>
            /\ (r.pc = "auth" /\ ~IsNone(caller) /\ Get(caller).role # "admin")
                   => EndsNow(s, 403)
            /\ (r.pc = "delete" /\ IsNone(Stored("users", r.target)))
                   => EndsNow(s, 404)

(* C5 amended: update and delete of a tracked entity answer 404 for a missing
   target even when the caller is no administrator; delete-user looks at the
   role first, so a non-administrator gets 403 whether or not the user
   exists, and 404 is answered to administrators only. *)
C5_NotFoundFirstForEntities ==
    [][\A s \in Slots : C5_Entities(s) /\ C5_DeleteUser(s)]_vars

(* a developer's delete-user on an unknown identity ended with 403 *)
C5_Witness ==
    \E s \in Slots :
        /\ req[s].op = "delete_user" /\ Ended(s, 403)
        /\ req[s].target = UnknownId
        /\ ~IsNone(Caller(req[s].credentials, clock))
        /\ Get(Caller(req[s].credentials, clock)).role = "developer"

(* the update routes *)
Updaters == {"update_bug", "update_fix", "update_idea"}

(* the persist step of the update in slot s hits a stored entity *)
Persists(s) ==
    /\ req[s].op \in Updaters /\ req[s].pc = "update" /\ Stepped(s)
    /\ req'[s].pc = "reread"
    /\ ~IsNone(Stored(CollectionOf(req[s].op), req[s].target))

Before(s) == Get(Stored(CollectionOf(req[s].op), req[s].target))
After(s) ==
    Get(FindOne(db'[CollectionOf(req[s].op)], [id |-> req[s].target]))

(* the fields a client can send, and the ones the server owns *)
PatchFields(s) == DOMAIN Get(req[s].payload)
Supplied(s, f) == f \in PatchFields(s) /\ Get(req[s].payload)[f] # Null

C6_Patch(s) ==
    Persists(s) =>
        /\ ~IsNone(FindOne(db'[CollectionOf(req[s].op)],
                           [id |-> req[s].target]))
        /\ DOMAIN After(s) = DOMAIN Before(s)
        /\ \A f \in (DOMAIN Before(s)) \ {"updated_at"} :
               IF Supplied(s, f)
               THEN After(s)[f] = Get(req[s].payload)[f]
               ELSE After(s)[f] = Before(s)[f]
        /\ \A c \in Collections :
               /\ Len(db'[c]) = Len(db[c])
               /\ \A i \in 1..Len(db[c]) :
                      db[c][i].id # req[s].target => db'[c][i] = db[c][i]

(* C6: the persist step of an update gives every field the non-null value the
   payload supplies for it and leaves every other field of the entity (the
   refreshed updated_at of a bug apart), and every other document, as it was;
   no field becomes null. *)
C6_SparsePatch == [][\A s \in Slots : C6_Patch(s)]_vars

(* a bug update that supplied status and assigned_to but no title has been
   persisted: the new status is stored beside the old title *)
C6_Witness ==
    \E s \in Slots :
        /\ req[s].op = "update_bug" /\ req[s].pc = "reread"
        /\ Get(req[s].payload).title = Null
        /\ Get(req[s].payload).status = "resolved"
        /\ ~IsNone(Stored("bugs", req[s].target))
        /\ Get(Stored("bugs", req[s].target)).status = "resolved"
        /\ Get(Stored("bugs", req[s].target)).assigned_to = "b"
        /\ Get(Stored("bugs", req[s].target)).title = Get(req[s].doc).title

(* C7 as stated: every persisted update of a defect, remediation or proposal
   leaves the entity with a last-modified timestamp that is not before the
   instant the request arrived. *)
C7_EveryKindRefreshes ==
    [][\A s \in Slots :
        Persists(s) =>
            /\ "updated_at" \in DOMAIN After(s)
            /\ After(s).updated_at >= req[s].received_at]_vars

C7_Bug(s) ==
    /\ (req[s].op = "update_bug" /\ req[s].pc = "find" /\ Stepped(s)
            /\ req'[s].pc = "update")
           => /\ "updated_at" \in DOMAIN req'[s].update_data
              /\ req'[s].update_data.updated_at = clock
    /\ (Persists(s) /\ req[s].op = "update_bug")
           => /\ "updated_at" \in DOMAIN req[s].update_data
              /\ After(s).updated_at = req[s].update_data.updated_at
              /\ After(s).updated_at >= req[s].received_at
              /\ After(s).updated_at <= clock

C7_FixIdea(s) ==
    (Persists(s) /\ req[s].op \in {"update_fix", "update_idea"})
        => "updated_at" \notin DOMAIN After(s)

(* C7 amended: a persisted update of a defect sets updated_at to the instant
   at which the handler built the update, which is not before the request
   arrived; a remediation and a proposal have no last-modified timestamp and
   their updates set none. *)
C7_BugRefreshes == [][\A s \in Slots : C7_Bug(s) /\ C7_FixIdea(s)]_vars

(* a bug update has been persisted with a later updated_at than the bug had,
   while a persisted fix update left the fix without one *)
C7_Witness ==
    \E s1, s2 \in Slots :
        /\ req[s1].op = "update_bug" /\ req[s1].pc = "reread"
        /\ ~IsNone(Stored("bugs", req[s1].target))
        /\ Get(Stored("bugs", req[s1].target)).updated_at
               > Get(req[s1].doc).updated_at
        /\ req[s2].op = "update_fix" /\ Ended(s2, 200)
        /\ "updated_at" \notin DOMAIN Get(req[s2].response.body)

C8_Step(s) ==
    LET r == req[s]
        caller == Caller(r.credentials, r.received_at)
        user == Stored("users", r.target)
    IN  (r.op = "delete_user" /\ Stepped(s)) =>
            /\ (r.pc = "auth" /\ ~IsNone(caller) /\ Get(caller).role # "admin")
                   => EndsNow(s, 403) /\ db' = db
            /\ (r.pc = "auth" /\ ~IsNone(caller) /\ Get(caller).role = "admin")
                   => req'[s].pc = "delete" /\ db' = db
            /\ (r.pc = "delete" /\ ~IsNone(user))
                   => /\ EndsNow(s, 200)
                      /\ db'.users = SelectSeq(db.users, LAMBDA u : u # Get(user))
                      /\ \A c \in Collections \ {"users"} : db'[c] = db[c]

C8_UsersGate ==
    (\E u \in Docs(db.users) : u \notin Docs(db'.users)) =>
        \E s \in Slots :
            /\ Stepped(s) /\ req[s].op = "delete_user" /\ req[s].pc = "delete"
            /\ Get(req[s].current_user).role = "admin"

(* C8: delete-user by an authenticated non-administrator ends with 403 and
   leaves the store as it was; a user record leaves the collection only in
   the delete step of an administrator's delete-user, which removes exactly
   the addressed record and answers 200. *)
C8_AdminOnlyDelete ==
    [][(\A s \in Slots : C8_Step(s)) /\ C8_UsersGate]_vars

(* a developer's delete-user was refused while an administrator's removed
   its target and nothing else *)
C8_Witness ==
    \E s1, s2 \in Slots :
        /\ req[s1].op = "delete_user" /\ Ended(s1, 403)
        /\ req[s1].response.detail = "Admin access required"
        /\ req[s1].target \in UserIds
        /\ req[s2].op = "delete_user" /\ Ended(s2, 200)
        /\ req[s2].target \notin UserIds
        /\ Len(db.users) = 2

(* the expiry of an issued token, in ticks: as the specification states it,
   and as the token carries it (whole seconds) *)
ExpiryAsStated(e) == e.issued_at + TokenLifetime
ExpiryInToken(e) == ToEpochSeconds(e.issued_at + TokenLifetime) * TicksPerSecond

(* the token service refuses the token of the request in slot s *)
TokenRefusedNow(s) ==
    /\ EndsNow(s, 401)
    /\ req'[s].response.detail = "Invalid authentication credentials"

C2_Validate(s, Expiry(_)) ==
    LET r == req[s]
    IN  (r.pc = "auth" /\ Stepped(s) /\ IsBearer(r.credentials)) =>
            /\ TokenOf(r.credentials) \notin IssuedTokens => TokenRefusedNow(s)
            /\ \A e \in tokens :
                   e.token = TokenOf(r.credentials) =>
                       /\ (r.received_at < Expiry(e)) <=> ~TokenRefusedNow(s)
                       /\ (/\ r.received_at < Expiry(e)
                           /\ e.subject \in UserIds
                           /\ r.op = "get_me")
                          => /\ EndsNow(s, 200)
                             /\ Get(req'[s].current_user).id = e.subject

(* C2 as stated: a presented token is accepted iff the server signed it and
   the instant at which it is decoded, the arrival of the request, is before
   issue time + 24 hours, and it then resolves to the subject it was issued
   for. *)
C2_ExpiryIsIssuePlus24h ==
    [][\A s \in Slots : C2_Validate(s, ExpiryAsStated)]_vars

(* C2 amended: a presented token is accepted iff the server signed it and the
   instant at which it is decoded, the arrival of the request, is before
   issue time + 24 hours cut down to a whole second, the expiry the token
   carries; it then resolves to the subject it was issued for. *)
C2_ExpiryIsWholeSeconds ==
    [][\A s \in Slots : C2_Validate(s, ExpiryInToken)]_vars

(* a token issued half a second after instant 0 was refused 24 hours after
   instant 0 *)
C2_Witness ==
    \E s \in Slots :
        \E e \in tokens :
            /\ req[s].op = "get_me" /\ Ended(s, 401)
            /\ req[s].response.detail = "Invalid authentication credentials"
            /\ req[s].credentials = Bearer(e.token)
            /\ e.issued_at = 1
            /\ clock = TokenLifetime

(* C9 as stated: no two user records share a username and no two share an
   email. *)
C9_UniqueUsers ==
    \A i, j \in 1..Len(db.users) :
        i # j => /\ db.users[i].username # db.users[j].username
                 /\ db.users[i].email # db.users[j].email

(* what the resolver answers to a token that does not decode *)
InvalidTokenResponse ==
    get_current_user(Bearer(MalformedToken), clock, db.users).error

(* C10 as stated: a request carrying the unexpired token of a deleted user
   gets the very response a request carrying an invalid token gets. *)
C10_SameResponse ==
    \A s \in Slots :
        (/\ req[s].pc = "done"
         /\ req[s].op \notin {"register", "login"}
         /\ IsBearer(req[s].credentials)
         /\ TokenOf(req[s].credentials) \in IssuedTokens
         /\ clock < TokenOf(req[s].credentials).exp * TicksPerSecond
         /\ Get(TokenOf(req[s].credentials).sub) \notin UserIds
         /\ req[s].response.status = 401)
        => req[s].response = InvalidTokenResponse

(* the collection a list route reads *)
ListedCollection(op) ==
    CASE op = "get_bugs" -> "bugs"
      [] op = "get_fixes" -> "fixes"
      [] op = "get_deployments" -> "deployments"
      [] op = "get_ideas" -> "ideas"

(* C11 as stated: the list of a kind, asked for by any authenticated caller,
   is answered with exactly the entities of that kind in the store, none
   omitted. *)
C11_ListsEverything ==
    [][\A s \in Slots :
        (/\ req[s].op \in ListOps \ {"get_users"}
         /\ req[s].pc = "find"
         /\ Stepped(s))
        => /\ EndsNow(s, 200)
           /\ Get(req'[s].response.body) = db[ListedCollection(req[s].op)]]_vars

(* the counts of the specification's computeStats over a store, the number
   of recent releases apart *)
HowMany(coll, P(_)) == Cardinality({i \in 1..Len(coll) : P(coll[i])})

StatsOf(store) ==
    [total_bugs |-> Len(store.bugs),
     open_bugs |-> HowMany(store.bugs, LAMBDA d : d.status = "open"),
     resolved_bugs |-> HowMany(store.bugs, LAMBDA d : d.status = "resolved"),
     pending_fixes |-> HowMany(store.fixes, LAMBDA d : d.status = "pending"),
     deployed_fixes |-> HowMany(store.fixes, LAMBDA d : d.status = "deployed"),
     new_ideas |-> HowMany(store.ideas, LAMBDA d : d.status = "new"),
     total_users |-> Len(store.users)]

(* releases whose timestamp lies in the 7 days that end at asOf *)
RecentReleases(store, asOf) ==
    HowMany(store.deployments,
            LAMBDA d : asOf - RecentWindow <= d.deployed_at
                       /\ d.deployed_at <= asOf)

C12_Step(s) ==
    LET r == req[s]
    IN  (r.op = "get_dashboard_stats" /\ Stepped(s)) =>
            /\ db' = db
            /\ (r.pc = "deployed_fixes")
                   => req'[s].filter.gte.deployed_at + RecentWindow = clock
            /\ (r.pc = "recent_deployments")
                   => req'[s].stats.recent_deployments
                          = RecentReleases(db, r.filter.gte.deployed_at
                                                   + RecentWindow)
            /\ (r.pc = "total_users")
                   => /\ EndsNow(s, 200)
                      /\ LET body == Get(req'[s].response.body)
                         IN  /\ \A f \in DOMAIN StatsOf(db) :
                                    body[f] = StatsOf(db)[f]
                             /\ body.recent_deployments
                                    = r.stats.recent_deployments
                             /\ DOMAIN body = (DOMAIN StatsOf(db))
                                                 \cup {"recent_deployments"}

(* C12: in a store nobody writes to, the dashboard answers with the number
   of defects, of open and of resolved defects, of pending and of deployed
   remediations, of new proposals and of users in the store, and with the
   number of releases whose timestamp lay within the 7 days ending at the
   instant at which the handler read the clock for that count; no step of it
   changes the store. *)
C12_StatsOfTheStore == [][\A s \in Slots : C12_Step(s)]_vars

(* the store of 2 open and 1 resolved defects, 2 releases a tick apart: a
   dashboard asked for a week after the later release counted that one and
   not the earlier *)
C12_Witness ==
    \E s \in Slots :
        /\ req[s].op = "get_dashboard_stats" /\ Ended(s, 200)
        /\ Get(req[s].response.body).total_bugs = 3
        /\ Get(req[s].response.body).open_bugs = 2
        /\ Get(req[s].response.body).resolved_bugs = 1
        /\ Get(req[s].response.body).recent_deployments = 1
        /\ Len(db.deployments) = 2
        /\ clock = RecentWindow + 1

(* the create routes, the collection each writes to and the field that names
   the creator *)
Creators == {"create_bug", "create_fix", "create_deployment", "create_idea"}

CreatedIn(op) ==
    CASE op = "create_bug" -> "bugs"
      [] op = "create_fix" -> "fixes"
      [] op = "create_deployment" -> "deployments"
      [] op = "create_idea" -> "ideas"

OwnerOf(op, e) == IF op = "create_deployment" THEN e.deployed_by ELSE e.created_by

OrDefault(supplied, default) == IF supplied = Null THEN default ELSE supplied

DefaultsApplied(op, payload, e) ==
    CASE op = "create_bug" ->
             e.status = "open" /\ e.priority = OrDefault(payload.priority, "medium")
      [] op = "create_fix" -> e.status = "pending"
      [] op = "create_idea" ->
             e.status = "new" /\ e.priority = OrDefault(payload.priority, "medium")
      [] op = "create_deployment" -> TRUE

C13_Step(s) ==
    LET r == req[s]
    IN  (r.op \in Creators /\ Stepped(s)) =>
            /\ (r.pc = "auth" /\ ~IsNone(Caller(r.credentials, r.received_at)))
                   => /\ req'[s].pc = "insert"
                      /\ req'[s].current_user = Caller(r.credentials, r.received_at)
                      /\ db' = db
            /\ (r.pc = "insert")
                   => /\ EndsNow(s, 200)
                      /\ LET e == Get(req'[s].response.body)
                         IN  /\ db'[CreatedIn(r.op)]
                                    = Append(db[CreatedIn(r.op)], e)
                             /\ \A c \in Collections \ {CreatedIn(r.op)} :
                                    db'[c] = db[c]
                             /\ OwnerOf(r.op, e) = Get(r.current_user).id
                             /\ \A c \in Collections :
                                    \A d \in Docs(db[c]) : d.id # e.id
                             /\ DefaultsApplied(r.op, Get(r.payload), e)

(* C13: a create request of an authenticated user goes on to its insert,
   and the insert answers 200 with the new entity, appends exactly that
   entity to the kind's collection and changes nothing else; the entity
   names the caller as its creator, has an identity no stored document has,
   and has the default status and, where the payload gives none, the default
   priority of its kind. *)
C13_CreateStoresOne == [][\A s \in Slots : C13_Step(s)]_vars

(* c created a bug without naming a priority, and a second bug, open and of
   medium priority and owned by c, is in the store *)
C13_Witness ==
    \E s \in Slots :
        /\ req[s].op = "create_bug" /\ Ended(s, 200)
        /\ Get(req[s].payload).priority = Null
        /\ Get(req[s].response.body).created_by = 3
        /\ Len(db.bugs) = 2
        /\ db.bugs[2] = Get(req[s].response.body)
        /\ db.bugs[2].status = "open" /\ db.bugs[2].priority = "medium"
        /\ db.bugs[2].id # db.bugs[1].id

(* the failure the authentication dependency answers with: 401, or the
   bearer scheme's refusal of a request without bearer credentials *)
AuthenticationFailure(resp) ==
    \/ resp.status = 401
    \/ /\ resp.status = 403
       /\ resp.detail \in {"Not authenticated",
                           "Invalid authentication credentials"}

C14_Step(s) ==
    LET r == req[s]
    IN  (/\ r.op \notin {"register", "login"}
         /\ r.pc = "auth" /\ Stepped(s)
         /\ IsNone(Caller(r.credentials, r.received_at)))
        => /\ req'[s].pc = "done"
           /\ AuthenticationFailure(req'[s].response)
           /\ IsNone(req'[s].current_user) /\ IsNone(req'[s].doc)
           /\ db' = db

(* C14: on every route but register and login, a request with no token, or
   with a token that does not resolve to a stored user (not issued by the
   server, expired, or issued to a user since deleted), ends in its first
   step with an authentication failure, without having read or changed any
   document. *)
C14_NoCallerNoAccess == [][\A s \in Slots : C14_Step(s)]_vars

(* a dashboard request without a token and a bug deletion with a forged
   token were both refused, and the bug is still there *)
C14_Witness ==
    \E s1, s2 \in Slots :
        /\ req[s1].op = "get_dashboard_stats" /\ Ended(s1, 403)
        /\ IsNone(req[s1].credentials)
        /\ req[s1].response.detail = "Not authenticated"
        /\ req[s2].op = "delete_bug" /\ Ended(s2, 401)
        /\ req[s2].credentials = Bearer(ForgedToken(clock))
        /\ ~IsNone(Stored("bugs", req[s2].target))

(* C15 as stated: an update by an authenticated caller that supplies at
   least one field ends, whatever other requests run beside it, with the
   updated entity (200), NotFound (404) or PermissionFailure (403). *)
C15_UpdateOutcomes ==
    \A s \in Slots :
        (/\ req[s].op \in Updaters /\ req[s].pc = "done"
         /\ ~IsNone(req[s].current_user)
         /\ \E f \in PatchFields(s) : Supplied(s, f))
        => req[s].response.status \in {200, 403, 404}

(* the collections of tracked entities, and the creator an entity names *)
EntityCollections == {"bugs", "fixes", "deployments", "ideas"}

CreatorOf(coll, e) == IF coll = "deployments" THEN e.deployed_by ELSE e.created_by

(* every entity stored before the step that is still stored after it names
   the creator it named before *)
C16_CreatorKept ==
    \A coll \in EntityCollections :
        \A d \in Docs(db[coll]) :
            \A e \in Docs(db'[coll]) :
                e.id = d.id => CreatorOf(coll, e) = CreatorOf(coll, d)

(* a step of delete-user leaves every collection of entities as it was *)
C16_NoCascade ==
    (\E s \in Slots : Stepped(s) /\ req[s].op = "delete_user")
        => \A coll \in EntityCollections : db'[coll] = db[coll]

(* identities are not reused: the entities of a collection keep their
   places, an entity is in one place only *)
C16_IdentityKept ==
    \A coll \in EntityCollections :
        \A i, j \in 1..Len(db'[coll]) :
            db'[coll][i].id = db'[coll][j].id => i = j

(* C16: no step changes the creator or the identity of a stored entity,
   whatever an update supplies and whoever sends it, and delete-user removes
   the user record and leaves all defects, remediations, releases and
   proposals, those of the deleted user included, as they were. *)
C16_CreatedByImmutable ==
    [][C16_CreatorKept /\ C16_NoCascade /\ C16_IdentityKept]_vars

(* b has been deleted, and the bug b created, since updated by an
   administrator, still names b as its creator *)
C16_Witness ==
    /\ 2 \notin UserIds
    /\ ~IsNone(Stored("bugs", 4))
    /\ Get(Stored("bugs", 4)).created_by = 2
    /\ Get(Stored("bugs", 4)).status # "open"
    /\ \E s \in Slots :
           /\ req[s].op = "update_bug"
           /\ req[s].pc \in {"reread", "done"}
           /\ ~IsNone(req[s].current_user)
           /\ Get(req[s].current_user).role = "admin"

(* the update in slot s2 addresses the entity the update in slot s does, has
   persisted, and nothing has overwritten what it wrote *)
WroteLast(s2, s) ==
    /\ s2 # s
    /\ req[s2].op = req[s].op /\ req[s2].target = req[s].target
    /\ req[s2].pc \in {"reread", "done"}
    /\ DOMAIN req[s2].update_data # {}
    /\ \A f \in DOMAIN req[s2].update_data :
           f \in DOMAIN Before(s) /\ Before(s)[f] = req[s2].update_data[f]

C17_Persist(s) ==
    Persists(s) =>
        /\ \A f \in DOMAIN req[s].update_data :
               f \in DOMAIN After(s) /\ After(s)[f] = req[s].update_data[f]
        /\ \A s2 \in Slots :
               WroteLast(s2, s) =>
                   \A f \in DOMAIN Before(s) :
                       After(s)[f] =
                           IF f \in DOMAIN req[s].update_data
                           THEN req[s].update_data[f]
                           ELSE IF f \in DOMAIN req[s2].update_data
                           THEN req[s2].update_data[f]
                           ELSE Before(s)[f]

(* C17: the persist step of an update writes all the fields of the update
   at once; when it follows the persist step of another update of the same
   entity, a field both updates supply holds the value of the later one, a
   field only one of them supplies holds that update's value, and every
   other field is as it was. *)
C17_LastWriteWins == [][\A s \in Slots : C17_Persist(s)]_vars

(* two updates of b's bug have persisted, one giving a title and a status,
   the other a status and an assignee: the bug has the title of the one, the
   assignee of the other, and the status of the one that persisted last *)
C17_Witness ==
    \E s1, s2 \in Slots :
        /\ s1 # s2
        /\ req[s1].op = "update_bug" /\ req[s2].op = "update_bug"
        /\ req[s1].target = 4 /\ req[s2].target = 4
        /\ req[s1].pc = "reread" /\ req[s2].pc = "reread"
        /\ Get(req[s1].payload).title = "t2"
        /\ Get(req[s2].payload).assigned_to = "b"
        /\ ~IsNone(Stored("bugs", 4))
        /\ Get(Stored("bugs", 4)).title = "t2"
        /\ Get(Stored("bugs", 4)).assigned_to = "b"
        /\ Get(Stored("bugs", 4)).status = "in_progress"

====
